---- MODULE Spec2Model ----
(***************************************************************************)
(* Call session controller of the clinicontact front-end.                  *)
(*                                                                         *)
(* AudioConnection (src/unnamed/part_000, lines 17-154) is modelled as a   *)
(* state machine over its React state (isSessionActive, settingUpSession,  *)
(* dataChannel), its refs (sessionData, sessionId, peerConnection), the    *)
(* startSession invocations that are suspended at an await, the teardown   *)
(* timers scheduled by stopSession, and the browser objects the component  *)
(* creates (peer connections, data channels, microphone streams).          *)
(*                                                                         *)
(* The k-th invocation of startSession is called k: the credential it      *)
(* receives has id k, and the peer connection, microphone stream and data  *)
(* channel it creates are peer connection k, stream k and channel k.       *)
(* 0 stands for null.                                                      *)
(*                                                                         *)
(* PrimaryPage (lines 232-331) renders AudioConnection while phoneCallId is *)
(* null and renders no control that calls handleCallPhoneNumber (the       *)
(* CallPhoneNumber element, lines 311-313, is commented out), so under     *)
(* Spec no phone call is placed and speakerStreams stays empty.            *)
(***************************************************************************)
EXTENDS Naturals, Integers, Sequences, FiniteSets, TLC

\* ---- bounds ----
MaxInputs == 4       \* inputs in one run: button clicks and data-channel messages
MaxLen    == 3       \* characters typed into the phone-number input
MaxCalls  == 2       \* onClick invocations of CallPhoneNumber suspended at once
MaxLiveCalls == 2    \* phone calls that can be opened in the live call display
MaxTextLen == 6      \* characters of an instruction text given to extractFields
MaxFirstLen == 3     \* characters of the text that produced the previous sample fields
MaxRecordedCalls == 3 \* recorded calls that can be opened in the call display

\* ---- program constants ----
HangUpGrace == 10000 \* stopSession(10000) in the message listener
ManualGrace == 0     \* stopSession(0) in the button's onClick

Sessions == 1..MaxInputs
Null     == 0

\* ---- strings ----
\* A string is the sequence of its characters.  A value of type
\* string | null is a record: NullString, or Str(s) for the string s.
NullString == [null |-> TRUE, value |-> <<>>]
Str(s)     == [null |-> FALSE, value |-> s]

\* JavaScript truthiness of a string | null: null and "" are falsy
Truthy(v) == ~v.null /\ Len(v.value) > 0

VARIABLES
    isSessionActive,   \* useState(false)
    settingUpSession,  \* useState(false)
    dataChannel,       \* useState<RTCDataChannel | null>(null)
    sessionData,       \* useRef([]) : the event log
    sessionId,         \* useRef(null)
    peerConnection,    \* useRef(null)
    started,           \* number of startSession invocations made so far
    phase,             \* phase[k] : where invocation k of startSession is
    pcState,           \* pcState[k] : peer connection k  none/open/closed
    dcState,           \* dcState[k] : channel k  none/connecting/open/closed
    mediaStream,       \* mediaStream[k] : microphone stream k  none/live
    timers,            \* the callbacks handed to setTimeout by stopSession
    received,          \* history: received[k] = number of messages delivered on channel k
    storeCalls,        \* history: the calls of storeSession, in order
    pcCloseCalls,      \* history: pcCloseCalls[k] = calls of close() on pc k
    toastErrors,       \* history: number of toast.error notifications
    failedCalls,       \* history: number of backend calls that returned a failure
    speakerStreams     \* PrimaryPage: phone calls whose speaker stream is consumed

VARIABLES
    \* CallPhoneNumber (lines 156-209)
    isCalling,          \* useState(false)
    phoneNumber,        \* useState<string | null>(null)
    isValidPhoneNumber, \* useState(false)
    pendingCalls,       \* invocations of onClick suspended at their await
    lastCalled          \* history: argument of the latest props.handleCallPhoneNumber

callVars == <<isCalling, phoneNumber, isValidPhoneNumber, pendingCalls, lastCalled>>

VARIABLES
    \* PrimaryPage, phone mode (lines 237-284)
    phoneCallId,        \* useState<string | null>(null)
    isPlaying,          \* useState(false)
    speakerIntervals,   \* useRef([]) : the speaker buffer
    audioSrc,           \* audioRef.current.src : the call whose audio is played
    placed,             \* number of handleCallPhoneNumber invocations so far
    outbound,           \* outbound[c] : the outboundCall request of invocation c
    closedStreams,      \* speaker streams that ended or threw, consumer not yet resumed
    streamed,           \* history: number of speaker payloads delivered
    hangUpLog,          \* the hangUp requests, in order: pending/ok/failed
    toastSuccess        \* history: number of toast.success notifications

pageVars == <<phoneCallId, isPlaying, speakerIntervals, audioSrc, placed,
              outbound, closedStreams, streamed, hangUpLog, toastSuccess>>

VARIABLES
    \* LiveCallDisplay (CallDisplay.tsx, lines 160-261)
    livePhoneCallId,    \* props.phoneCallId : the parent's selected live call
    liveOpen,           \* useState(false) : open
    speakerSegments,    \* useState([])
    callEnded,          \* useState(false)
    metaStreams,        \* the runs of runMetadataStream, in order
    liveInputs          \* history: selections, closings and payloads so far

liveVars == <<livePhoneCallId, liveOpen, speakerSegments, callEnded,
              metaStreams, liveInputs>>

VARIABLES
    \* the sample-field map that AgentConfiguration updates (props.setSampleFields)
    sampleFields,       \* Record<string, string>, as its entries in enumeration order
    extracts,           \* history: number of ExtractFieldsCall steps so far
    lastText            \* history: the text of the latest ExtractFieldsCall step

fieldVars == <<sampleFields, extracts, lastText>>

VARIABLES
    \* AgentConfiguration and CreateNewAgentModal (lines 363-630)
    agents,             \* props.agents : the agent collection, newest first
    agentId,            \* props.agentId : the selection
    newVersion,         \* useState<Agent | null>(null) : the pending edit
    saveLoading,        \* useState(false)
    saveLog,            \* the createNewAgentVersion requests, in order
    createLog,          \* the createAgent requests, in order
    issued,             \* history: number of records the backend has created
    agentInputs         \* history: edits, selections and button clicks so far

agentVars == <<agents, agentId, newVersion, saveLoading, saveLog, createLog,
               issued, agentInputs>>

VARIABLES
    \* CallDisplay (CallDisplay.tsx, lines 72-158)
    call,               \* props.call : the id of the parent's selected recorded call
    callOpen,           \* useState(false) : open
    transcriptLoading,  \* useState(true)
    audioTranscript,    \* useState({...}) : the call whose transcript is held, 0 for the empty one
    transcriptFetches,  \* the getAudioTranscript requests, in order
    displayInputs       \* history: selections and closings so far

displayVars == <<call, callOpen, transcriptLoading, audioTranscript,
                 transcriptFetches, displayInputs>>

\* the state of the components other than AudioConnection
otherVars == <<callVars, pageVars, liveVars, fieldVars, agentVars, displayVars>>

vars == <<isSessionActive, settingUpSession, dataChannel, sessionData,
          sessionId, peerConnection, started, phase, pcState, dcState,
          mediaStream, timers, received, storeCalls, pcCloseCalls,
          toastErrors, speakerStreams,
          failedCalls, otherVars>>

\* the state of AudioConnection
connVars == <<isSessionActive, settingUpSession, dataChannel, sessionData,
              sessionId, peerConnection, started, phase, pcState, dcState,
              mediaStream, timers, received, storeCalls, pcCloseCalls>>

reactVars == <<isSessionActive, settingUpSession, dataChannel>>
refVars   == <<sessionData, sessionId, peerConnection>>
rtcVars   == <<pcState, dcState, mediaStream>>
histVars  == <<received, storeCalls, pcCloseCalls, toastErrors>>

Phases == {"none", "awaitToken", "failedToken", "awaitMedia", "rejectedMedia",
           "awaitSdp", "rejectedSdp", "done"}

Event(src, n, hang) == [src |-> src, n |-> n, hang |-> hang]

TypeOK ==
    /\ isSessionActive \in BOOLEAN
    /\ settingUpSession \in BOOLEAN
    /\ dataChannel \in {Null} \cup Sessions
    /\ sessionId \in {Null} \cup Sessions
    /\ peerConnection \in {Null} \cup Sessions
    /\ started \in 0..MaxInputs
    /\ phase \in [Sessions -> Phases]
    /\ pcState \in [Sessions -> {"none", "open", "closed"}]
    /\ dcState \in [Sessions -> {"none", "connecting", "open", "closed"}]
    /\ mediaStream \in [Sessions -> {"none", "live"}]
    /\ Len(sessionData) <= MaxInputs
    /\ toastErrors \in Nat

Init ==
    /\ isSessionActive = FALSE
    /\ settingUpSession = FALSE
    /\ dataChannel = Null
    /\ sessionData = <<>>
    /\ sessionId = Null
    /\ peerConnection = Null
    /\ started = 0
    /\ phase = [k \in Sessions |-> "none"]
    /\ pcState = [k \in Sessions |-> "none"]
    /\ dcState = [k \in Sessions |-> "none"]
    /\ mediaStream = [k \in Sessions |-> "none"]
    /\ timers = <<>>
    /\ received = [k \in Sessions |-> 0]
    /\ storeCalls = <<>>
    /\ pcCloseCalls = [k \in Sessions |-> 0]
    /\ toastErrors = 0
    /\ failedCalls = 0
    /\ speakerStreams = {}
    /\ isCalling = FALSE
    /\ phoneNumber = NullString
    /\ isValidPhoneNumber = FALSE
    /\ pendingCalls = 0
    /\ lastCalled = NullString
    /\ phoneCallId = Null
    /\ isPlaying = FALSE
    /\ speakerIntervals = <<>>
    /\ audioSrc = Null
    /\ placed = 0
    /\ outbound = [c \in Sessions |-> "none"]
    /\ closedStreams = {}
    /\ streamed = 0
    /\ hangUpLog = <<>>
    /\ toastSuccess = 0
    /\ livePhoneCallId = Null
    /\ liveOpen = FALSE
    /\ speakerSegments = <<>>
    /\ callEnded = FALSE
    /\ metaStreams = <<>>
    /\ liveInputs = 0
    /\ sampleFields = <<>>
    /\ extracts = 0
    /\ lastText = NullString
    /\ agents = <<>>
    /\ agentId = [baseId |-> Null, versionId |-> Null]
    /\ newVersion = [pending |-> FALSE, id |-> Null, base |-> Null,
                     active |-> FALSE, name |-> "", msg |-> <<>>]
    /\ saveLoading = FALSE
    /\ saveLog = <<>>
    /\ createLog = <<>>
    /\ issued = 0
    /\ agentInputs = 0
    /\ call = Null
    /\ callOpen = FALSE
    /\ transcriptLoading = TRUE
    /\ audioTranscript = Null
    /\ transcriptFetches = <<>>
    /\ displayInputs = 0

\* ---- stopSession: the synchronous part ----
\* dc is the value of the dataChannel state captured by the closure.
stopSession(dc, timeout) ==
    /\ isSessionActive' = FALSE
    /\ timers' = Append(timers, [dc |-> dc, timeout |-> timeout, status |-> "pending"])

RECURSIVE SumReceived(_)
SumReceived(n) == IF n = 0 THEN 0 ELSE received[n] + SumReceived(n - 1)

\* messages delivered so far, on all channels
TotalReceived == SumReceived(MaxInputs)

\* Hang Up clicks so far
StopClicks == Cardinality({i \in 1..Len(timers) : timers[i].timeout = ManualGrace})

InputsSoFar == started + TotalReceived + StopClicks

\* ---- the button ----
ClickStart ==
    /\ ~isSessionActive
    /\ InputsSoFar < MaxInputs
    /\ started' = started + 1
    /\ phase' = [phase EXCEPT ![started + 1] = "awaitToken"]
    /\ settingUpSession' = TRUE
    /\ UNCHANGED <<isSessionActive, dataChannel, refVars, rtcVars, timers,
                   histVars, speakerStreams, otherVars>>

ClickStop ==
    /\ isSessionActive
    /\ InputsSoFar < MaxInputs
    /\ stopSession(dataChannel, ManualGrace)
    /\ UNCHANGED <<settingUpSession, dataChannel, refVars, started, phase,
                   rtcVars, received, storeCalls, pcCloseCalls, toastErrors,
                   speakerStreams, otherVars>>

\* ---- startSession, one action per resumption ----
TokenReturn(k, ok) ==
    /\ phase[k] = "awaitToken"
    /\ IF ok
       THEN /\ sessionId' = k
            /\ pcState' = [pcState EXCEPT ![k] = "open"]
            /\ phase' = [phase EXCEPT ![k] = "awaitMedia"]
            /\ UNCHANGED <<settingUpSession, toastErrors>>
       ELSE /\ settingUpSession' = FALSE
            /\ toastErrors' = toastErrors + 1
            /\ phase' = [phase EXCEPT ![k] = "failedToken"]
            /\ UNCHANGED <<sessionId, pcState>>
    /\ UNCHANGED <<isSessionActive, dataChannel, sessionData, peerConnection,
                   started, dcState, mediaStream, timers, received, storeCalls,
                   pcCloseCalls, speakerStreams, otherVars>>

MediaReturn(k, ok) ==
    /\ phase[k] = "awaitMedia"
    /\ IF ok
       THEN /\ mediaStream' = [mediaStream EXCEPT ![k] = "live"]
            /\ dcState' = [dcState EXCEPT ![k] = "connecting"]
            /\ dataChannel' = k
            /\ phase' = [phase EXCEPT ![k] = "awaitSdp"]
       ELSE /\ phase' = [phase EXCEPT ![k] = "rejectedMedia"]
            /\ UNCHANGED <<mediaStream, dcState, dataChannel>>
    /\ UNCHANGED <<isSessionActive, settingUpSession, refVars, started,
                   pcState, timers, histVars, speakerStreams, otherVars>>

\* SdpReturn with the session marked active as soon as negotiation completes
SdpReturnMarksActive(k, ok) ==
    /\ phase[k] = "awaitSdp"
    /\ IF ok
       THEN /\ peerConnection' = k
            /\ phase' = [phase EXCEPT ![k] = "done"]
            /\ isSessionActive' = TRUE
            /\ settingUpSession' = FALSE
       ELSE /\ phase' = [phase EXCEPT ![k] = "rejectedSdp"]
            /\ UNCHANGED <<peerConnection, isSessionActive, settingUpSession>>
    /\ UNCHANGED <<dataChannel, sessionData, sessionId, started, rtcVars,
                   timers, histVars, speakerStreams, otherVars>>

SdpReturn(k, ok) ==
    /\ phase[k] = "awaitSdp"
    /\ IF ok
       THEN /\ peerConnection' = k
            /\ phase' = [phase EXCEPT ![k] = "done"]
       ELSE /\ phase' = [phase EXCEPT ![k] = "rejectedSdp"]
            /\ UNCHANGED peerConnection
    /\ UNCHANGED <<reactVars, sessionData, sessionId, started, rtcVars,
                   timers, histVars, speakerStreams, otherVars>>

\* ---- the listeners attached by the effect on dataChannel ----
\* The effect runs in the render in which dataChannel became channel k, so the
\* stopSession its message listener calls has captured dataChannel = k.
\* Channel k opens once the remote description is applied on an open
\* peer connection.
DcOpen(k) ==
    /\ dcState[k] = "connecting"
    /\ phase[k] = "done"
    /\ pcState[k] = "open"
    /\ dcState' = [dcState EXCEPT ![k] = "open"]
    /\ isSessionActive' = TRUE
    /\ settingUpSession' = FALSE
    /\ UNCHANGED <<dataChannel, refVars, started, phase, pcState, mediaStream,
                   timers, received, storeCalls, pcCloseCalls, toastErrors,
                   speakerStreams, otherVars>>

\* IsHangUp comparing against a name the server never sends
IsHangUpWrongName(e) == FALSE

\* event.type === "response.function_call_arguments.done" && event.name === "hang_up"
IsHangUp(e) == e.hang

DcMessage(k, hang) ==
    LET e == Event(k, received[k] + 1, hang) IN
    /\ dcState[k] = "open"
    /\ InputsSoFar < MaxInputs
    /\ received' = [received EXCEPT ![k] = @ + 1]
    /\ sessionData' = Append(sessionData, e)
    /\ IF IsHangUp(e)
       THEN /\ stopSession(k, HangUpGrace)
       ELSE UNCHANGED <<isSessionActive, timers>>
    /\ UNCHANGED <<settingUpSession, dataChannel, sessionId, peerConnection,
                   started, phase, rtcVars, storeCalls, pcCloseCalls,
                   toastErrors, speakerStreams, otherVars>>

\* ---- stopSession: the timer callback ----
\* if (sessionId.current && sessionData.current.length > 0)
ShouldStore == sessionId # Null /\ Len(sessionData) > 0

\* ClearSession without the reset of sessionId
ClearSessionKeepsId ==
    /\ dataChannel' = Null
    /\ peerConnection' = Null
    /\ sessionData' = <<>>
    /\ UNCHANGED sessionId

\* the four assignments that end the callback
ClearSession ==
    /\ dataChannel' = Null
    /\ peerConnection' = Null
    /\ sessionId' = Null
    /\ sessionData' = <<>>

\* a callback that has run to its end holds on to nothing
Finished(t) == [dc |-> Null, timeout |-> t.timeout, status |-> "done"]

\* A timer fires no earlier than a timer that was set before it with a delay
\* that is not longer.
MayFire(i) ==
    /\ i \in 1..Len(timers)
    /\ timers[i].status = "pending"
    /\ \A j \in 1..(i - 1) :
          timers[j].status = "pending" => timers[j].timeout > timers[i].timeout

\* dataChannel.close() on the captured channel, then
\* peerConnection.current.close(), which also closes that connection's channel.
ClosedChannels(dc) ==
    {k \in Sessions : dcState[k] # "none" /\ (k = dc \/ k = peerConnection)}

TimerFire(i) ==
    /\ MayFire(i)
    /\ dcState' = [k \in Sessions |->
                     IF k \in ClosedChannels(timers[i].dc) THEN "closed" ELSE dcState[k]]
    /\ IF peerConnection # Null
       THEN /\ pcState' = [pcState EXCEPT ![peerConnection] = "closed"]
            /\ pcCloseCalls' = [pcCloseCalls EXCEPT ![peerConnection] = @ + 1]
       ELSE UNCHANGED <<pcState, pcCloseCalls>>
    /\ IF ShouldStore
       THEN /\ storeCalls' = Append(storeCalls,
                  [sid |-> sessionId, data |-> sessionData, rcvd |-> received[sessionId]])
            /\ timers' = [timers EXCEPT ![i].status = "storing"]
            /\ UNCHANGED <<dataChannel, refVars>>
       ELSE /\ ClearSession
            /\ timers' = [timers EXCEPT ![i] = Finished(@)]
            /\ UNCHANGED storeCalls
    /\ UNCHANGED <<isSessionActive, settingUpSession, started, phase,
                   mediaStream, received, toastErrors, speakerStreams, otherVars>>

\* storeSession returns (the record, or null after a caught failure)
StoreReturn(i, ok) ==
    /\ i \in 1..Len(timers)
    /\ timers[i].status = "storing"
    /\ ClearSession
    /\ timers' = [timers EXCEPT ![i] = Finished(@)]
    /\ UNCHANGED <<isSessionActive, settingUpSession, started, phase, rtcVars,
                   histVars, speakerStreams, otherVars>>

\* the history variable failedCalls is kept by the specifications about
\* failures; the others leave it alone
NotCounted == UNCHANGED failedCalls

\* a backend call returns: ok, or with the sentinel of a caught failure
Counted(ok) == failedCalls' = IF ok THEN failedCalls ELSE failedCalls + 1

Next ==
    \/ ClickStart /\ NotCounted
    \/ ClickStop /\ NotCounted
    \/ \E k \in Sessions, ok \in BOOLEAN : TokenReturn(k, ok) /\ NotCounted
    \/ \E k \in Sessions, ok \in BOOLEAN : MediaReturn(k, ok) /\ NotCounted
    \/ \E k \in Sessions, ok \in BOOLEAN : SdpReturn(k, ok) /\ NotCounted
    \/ \E k \in Sessions : DcOpen(k) /\ NotCounted
    \/ \E k \in Sessions, hang \in BOOLEAN : DcMessage(k, hang) /\ NotCounted
    \/ \E i \in 1..MaxInputs : TimerFire(i) /\ NotCounted
    \/ \E i \in 1..MaxInputs, ok \in BOOLEAN : StoreReturn(i, ok) /\ NotCounted

Spec == Init /\ [][Next]_vars

\* storeSession and every other backend call settles, and a timer that may
\* fire does fire.
FairSpec ==
    /\ Spec
    /\ WF_vars(\E i \in 1..MaxInputs : TimerFire(i) /\ NotCounted)
    /\ WF_vars(\E i \in 1..MaxInputs, ok \in BOOLEAN : StoreReturn(i, ok) /\ NotCounted)

\* the same steps, with the failures of createSession and storeSession counted
NextCounted ==
    \/ ClickStart /\ NotCounted
    \/ ClickStop /\ NotCounted
    \/ \E k \in Sessions, ok \in BOOLEAN : TokenReturn(k, ok) /\ Counted(ok)
    \/ \E k \in Sessions, ok \in BOOLEAN : MediaReturn(k, ok) /\ NotCounted
    \/ \E k \in Sessions, ok \in BOOLEAN : SdpReturn(k, ok) /\ NotCounted
    \/ \E k \in Sessions : DcOpen(k) /\ NotCounted
    \/ \E k \in Sessions, hang \in BOOLEAN : DcMessage(k, hang) /\ NotCounted
    \/ \E i \in 1..MaxInputs : TimerFire(i) /\ NotCounted
    \/ \E i \in 1..MaxInputs, ok \in BOOLEAN : StoreReturn(i, ok) /\ Counted(ok)

SpecCounted == Init /\ [][NextCounted]_vars

\* the runs in which the button is not clicked while the spinner of a start
\* is shown: one startSession is setting up at a time
ClickStartIdle == ~settingUpSession /\ ClickStart

NextOneAtATime ==
    \/ ClickStartIdle /\ NotCounted
    \/ ClickStop /\ NotCounted
    \/ \E k \in Sessions, ok \in BOOLEAN : TokenReturn(k, ok) /\ NotCounted
    \/ \E k \in Sessions, ok \in BOOLEAN : MediaReturn(k, ok) /\ NotCounted
    \/ \E k \in Sessions, ok \in BOOLEAN : SdpReturn(k, ok) /\ NotCounted
    \/ \E k \in Sessions : DcOpen(k) /\ NotCounted
    \/ \E k \in Sessions, hang \in BOOLEAN : DcMessage(k, hang) /\ NotCounted
    \/ \E i \in 1..MaxInputs : TimerFire(i) /\ NotCounted
    \/ \E i \in 1..MaxInputs, ok \in BOOLEAN : StoreReturn(i, ok) /\ NotCounted

SpecOneAtATime == Init /\ [][NextOneAtATime]_vars

\* ======================= properties =======================

\* a step in which stopSession is called
StopCalled == Len(timers') = Len(timers) + 1

\* a step in which timer i starts its callback
TimerFires(i) ==
    /\ i \in 1..Len(timers)
    /\ timers[i].status = "pending"
    /\ timers'[i].status # "pending"

\* a step in which the callback of timer i runs to its end
TeardownFinishes(i) ==
    /\ i \in 1..Len(timers)
    /\ timers[i].status # "done"
    /\ timers'[i].status = "done"

Cleared ==
    /\ sessionData = <<>>
    /\ sessionId = Null
    /\ dataChannel = Null
    /\ peerConnection = Null

InFlight == {k \in Sessions : phase[k] \in {"awaitToken", "awaitMedia", "awaitSdp"}}

Failed == {k \in Sessions : phase[k] \in {"failedToken", "rejectedMedia", "rejectedSdp"}}

\* nothing the program has started is still to run
Settled ==
    /\ InFlight = {}
    /\ \A i \in 1..Len(timers) : timers[i].status = "done"
    /\ \A k \in Sessions : ~(dcState[k] = "connecting" /\ phase[k] = "done" /\ pcState[k] = "open")

\* C1: the session becomes active only in a step in which a data channel
\* created by a startSession that has completed its negotiation fires "open";
\* no other step (credential, media or SDP completion) makes it active.
C1_ActiveOnlyAfterOpen ==
    [][(isSessionActive' /\ ~isSessionActive) =>
          \E k \in Sessions :
             /\ phase[k] = "done"
             /\ dcState[k] = "connecting"
             /\ dcState'[k] = "open"]_vars

\* C1 witness: a session is active again after an earlier stop
C1_Witness ==
    /\ isSessionActive
    /\ Len(timers) >= 1
    /\ \E k \in Sessions : dcState[k] = "open"

\* data is exactly the n messages delivered on channel sid, in arrival order
ExactLog(sid, data, n) ==
    /\ Len(data) = n
    /\ \A j \in 1..Len(data) : data[j].src = sid /\ data[j].n = j

\* C2: every event log handed to storeSession is exactly the sequence of
\* messages received on the data channel of the session it is stored under.
C2_StoredLogIsReceivedLog ==
    \A i \in 1..Len(storeCalls) :
       ExactLog(storeCalls[i].sid, storeCalls[i].data, storeCalls[i].rcvd)

\* C3: each time a teardown callback runs, storeSession is called if and only
\* if the event log is non-empty at that moment.
C3_StoreIffLogNonEmpty ==
    [][\A i \in 1..MaxInputs :
          TimerFires(i) => ((storeCalls' # storeCalls) <=> (Len(sessionData) > 0))]_vars

\* C4: stopSession makes the session inactive in the step it is called and
\* tears nothing down in that step; channels and peer connections are closed
\* and the log is persisted only in a step in which a timer fires; and the
\* step that ends a teardown leaves the log empty and the session id, the
\* data-channel handle and the peer-connection handle null.
C4_StopDefersTeardown ==
    [][/\ StopCalled =>
            /\ ~isSessionActive'
            /\ Len(sessionData') >= Len(sessionData)
            /\ UNCHANGED <<pcState, dcState, pcCloseCalls, storeCalls,
                           dataChannel, sessionId, peerConnection>>
       /\ (pcCloseCalls' # pcCloseCalls \/ storeCalls' # storeCalls
             \/ \E k \in Sessions : dcState[k] # "closed" /\ dcState'[k] = "closed")
            => \E i \in 1..MaxInputs : TimerFires(i)
       /\ (\E i \in 1..MaxInputs : TeardownFinishes(i)) => Cleared'
      ]_vars

\* C4 witness: a teardown that persisted the log has completed and the
\* session state is cleared
C4_Witness ==
    /\ \E i \in 1..Len(timers) : timers[i].status = "done"
    /\ Len(storeCalls) > 0
    /\ Cleared
    /\ ~isSessionActive

\* a teardown started by a hang_up event has not yet run to its end
HangUpTeardownPending ==
    \E i \in 1..Len(timers) :
       timers[i].timeout = HangUpGrace /\ timers[i].status # "done"

\* C5: a message is appended to the log when it arrives, also after a stop;
\* a hang_up function-call event also starts a stop with a grace period of
\* 10 seconds; the teardown of that stop eventually runs to its end, and the
\* step that ends it clears the session identifiers.
C5_HangUpEvent ==
    /\ [][\A k \in Sessions :
            received'[k] = received[k] + 1 =>
               LET e == sessionData'[Len(sessionData')] IN
               /\ sessionData' = Append(sessionData, e)
               /\ e.src = k /\ e.n = received'[k]
               /\ e.hang =>
                    /\ ~isSessionActive'
                    /\ timers' = Append(timers,
                          [dc |-> k, timeout |-> HangUpGrace, status |-> "pending"])]_vars
    /\ [][\A i \in 1..MaxInputs :
            (TeardownFinishes(i) /\ timers[i].timeout = HangUpGrace) => Cleared']_vars
    /\ HangUpTeardownPending ~> ~HangUpTeardownPending

\* C5 witness: the teardown started by a hang_up event has ended, and it
\* persisted a log holding the hang_up event and an event that came after it
C5_Witness ==
    /\ \E i \in 1..Len(timers) :
          timers[i].timeout = HangUpGrace /\ timers[i].status = "done"
    /\ \E c \in 1..Len(storeCalls) :
          /\ Len(storeCalls[c].data) >= 2
          /\ storeCalls[c].data[1].hang
    /\ sessionId = Null

\* peer connections created and not yet closed
OpenPeerConnections == {k \in Sessions : pcState[k] = "open"}

\* C6: at most one session or phone call is live: open peer connections plus
\* phone calls whose speaker stream is being consumed number at most one.
C6_AtMostOneLive ==
    Cardinality(OpenPeerConnections) + Cardinality(speakerStreams) <= 1

\* C7: close() is invoked on a peer connection at most once.
C7_PeerClosedOnce ==
    \A k \in Sessions : pcCloseCalls[k] <= 1

\* C8: when createSession returns no credential, startSession ends with the
\* controller idle, one more error notification, and no session id, peer
\* connection, microphone stream or data channel created.
C8_NoCredentialBackToIdle ==
    [][\A k \in Sessions :
          (phase[k] = "awaitToken" /\ phase'[k] = "failedToken") =>
             /\ ~settingUpSession'
             /\ ~isSessionActive'
             /\ toastErrors' = toastErrors + 1
             /\ UNCHANGED <<sessionId, peerConnection, dataChannel, pcState,
                            dcState, mediaStream>>]_vars

\* C9: when getUserMedia fails after the credential was obtained,
\* startSession ends with the controller idle, no session id left set and one
\* more notification.
C9_NoMediaBackToIdle ==
    [][\A k \in Sessions :
          (phase[k] = "awaitMedia" /\ phase'[k] = "rejectedMedia") =>
             /\ ~settingUpSession'
             /\ ~isSessionActive'
             /\ sessionId' = Null
             /\ toastErrors' = toastErrors + 1]_vars

\* C10: once everything the program started has run, a startSession whose
\* negotiation failed has left the controller idle and the user notified of
\* every failed start.
C10_NegotiationFailureBackToIdle ==
    (Settled /\ \E k \in Sessions : phase[k] = "rejectedSdp") =>
        /\ ~settingUpSession
        /\ ~isSessionActive
        /\ toastErrors >= Cardinality(Failed)

\* the session a teardown was scheduled for: the one whose data channel the
\* closure of stopSession captured
TeardownSession(i) == timers[i].dc

\* a step of the callback of timer i: its start, or its end
TeardownStep(i) == TimerFires(i) \/ TeardownFinishes(i)

\* C21: a teardown scheduled by a stop of session A affects only session A:
\* a step of its callback closes no peer connection other than A's, leaves
\* the session id and the event log alone while they belong to another
\* session, and persists nothing but A's events under A's id.  Stated for
\* the stops with the 10 second grace period, during which a new session
\* can be started.
C21_TeardownAffectsOwnSession ==
    [][\A i \in 1..MaxInputs :
          (/\ TeardownStep(i)
           /\ TeardownSession(i) # Null
           /\ timers[i].timeout = HangUpGrace) =>
             LET A == TeardownSession(i) IN
             /\ \A k \in Sessions \ {A} : pcState'[k] = pcState[k]
             /\ sessionId \notin {Null, A} => UNCHANGED <<sessionId, sessionData>>
             /\ storeCalls' # storeCalls =>
                   LET c == storeCalls'[Len(storeCalls')] IN
                   /\ c.sid = A
                   /\ \A j \in 1..Len(c.data) : c.data[j].src = A]_vars

\* C22: storeSession is called at most once per session id.
C22_StoredAtMostOnce ==
    \A i, j \in 1..Len(storeCalls) :
       i # j => storeCalls[i].sid # storeCalls[j].sid

\* ======================= CallPhoneNumber =======================
\* src/unnamed/part_000, lines 156-209

Digits   == {"0", "1", "2", "3", "4", "5", "6", "7", "8", "9"}

\* the characters that are typed in the runs
Alphabet == {"+", "1", "-"}

RECURSIVE StringsOfLen(_)
StringsOfLen(n) ==
    IF n = 0 THEN {<<>>}
    ELSE {Append(s, c) : s \in StringsOfLen(n - 1), c \in Alphabet}

Strings == UNION {StringsOfLen(n) : n \in 0..MaxLen}

\* s.startsWith(c)
StartsWith(s, c) == Len(s) >= 1 /\ s[1] = c

\* s.slice(n)
Slice(s, n) == SubSeq(s, n + 1, Len(s))

\* the regular expression /^\d+$/ run over s from position i on, n digits
\* having been consumed: \d+ takes every digit it can, and $ then asks for
\* the end of the input (there is nothing to backtrack to: a shorter run of
\* digits ends before a digit, which is not the end either)
RECURSIVE MatchDigits(_, _, _)
MatchDigits(s, i, n) ==
    IF i <= Len(s) /\ s[i] \in Digits
    THEN MatchDigits(s, i + 1, n + 1)
    ELSE n >= 1 /\ i = Len(s) + 1

validatePhoneNumberNoDigit(s) ==
    StartsWith(s, "+")

validatePhoneNumber(s) ==
    StartsWith(s, "+") /\ MatchDigits(Slice(s, 1), 1, 0)

\* the Button's disabled attribute (line 182)
CallDisabled == ~phoneNumber.null /\ ~isValidPhoneNumber /\ ~isCalling

\* the Input's onChange (lines 192-195)
EditNumber(s) ==
    /\ phoneNumber' = Str(s)
    /\ isValidPhoneNumber' = validatePhoneNumber(s)
    /\ UNCHANGED <<isCalling, pendingCalls, lastCalled>>

\* the Button's onClick up to its await (lines 170-173)
ClickCall ==
    /\ ~CallDisabled
    /\ Truthy(phoneNumber)
    /\ pendingCalls < MaxCalls
    /\ isCalling' = TRUE
    /\ lastCalled' = phoneNumber
    /\ pendingCalls' = pendingCalls + 1
    /\ UNCHANGED <<phoneNumber, isValidPhoneNumber>>

\* props.handleCallPhoneNumber settles and onClick resumes (line 174)
CallSettles ==
    /\ pendingCalls > 0
    /\ pendingCalls' = pendingCalls - 1
    /\ isCalling' = FALSE
    /\ UNCHANGED <<phoneNumber, isValidPhoneNumber, lastCalled>>

\* what the steps of CallPhoneNumber leave alone
CallFrame ==
    UNCHANGED <<connVars, toastErrors, failedCalls, speakerStreams, pageVars,
                liveVars, fieldVars, agentVars, displayVars>>

NextCall ==
    \/ \E s \in Strings : EditNumber(s) /\ CallFrame
    \/ ClickCall /\ CallFrame
    \/ CallSettles /\ CallFrame

SpecCall == Init /\ [][NextCall]_vars

\* s is "+" followed by one or more decimal digits and nothing else
PlusThenDigits(s) ==
    /\ Len(s) >= 2
    /\ s[1] = "+"
    /\ \A i \in 2..Len(s) : s[i] \in Digits

\* C11: handleCallPhoneNumber is only ever invoked with a number that
\* validatePhoneNumber accepts, whatever edits and clicks came before,
\* also while an earlier request is pending.
C11_OnlyValidNumbersCalled ==
    ~lastCalled.null => validatePhoneNumber(lastCalled.value)

AudioElementMounted == TRUE

\* clicks, payloads and hang-up requests so far
PhoneInputsSoFar == placed + streamed + Len(hangUpLog)

\* handleCallPhoneNumber up to its await (lines 245-251)
PlaceCall ==
    /\ ~isPlaying
    /\ PhoneInputsSoFar < MaxInputs
    /\ placed' = placed + 1
    /\ outbound' = [outbound EXCEPT ![placed + 1] = "pending"]
    /\ UNCHANGED <<phoneCallId, isPlaying, speakerIntervals, audioSrc,
                   closedStreams, streamed, hangUpLog, toastSuccess,
                   toastErrors, failedCalls, speakerStreams>>

\* outboundCall returns: null after a caught failure, else the call id
\* (lines 252-274; the consumer of the speaker stream is started)
OutboundReturnKeepsId(c, ok) ==
    /\ outbound[c] = "pending"
    /\ outbound' = [outbound EXCEPT ![c] = IF ok THEN "ok" ELSE "failed"]
    /\ IF ok
       THEN /\ isPlaying' = TRUE
            /\ audioSrc' = IF AudioElementMounted THEN c ELSE audioSrc
            /\ speakerStreams' = speakerStreams \cup {c}
            /\ UNCHANGED <<toastErrors, failedCalls, phoneCallId>>
       ELSE /\ toastErrors' = toastErrors + 1
            /\ failedCalls' = failedCalls + 1
            /\ UNCHANGED <<phoneCallId, isPlaying, audioSrc, speakerStreams>>
    /\ UNCHANGED <<speakerIntervals, placed, closedStreams, streamed,
                   hangUpLog, toastSuccess>>

OutboundReturn(c, ok) ==
    /\ outbound[c] = "pending"
    /\ outbound' = [outbound EXCEPT ![c] = IF ok THEN "ok" ELSE "failed"]
    /\ IF ok
       THEN /\ phoneCallId' = c
            /\ isPlaying' = TRUE
            /\ audioSrc' = IF AudioElementMounted THEN c ELSE audioSrc
            /\ speakerStreams' = speakerStreams \cup {c}
            /\ UNCHANGED <<toastErrors, failedCalls>>
       ELSE /\ toastErrors' = toastErrors + 1
            /\ failedCalls' = failedCalls + 1
            /\ UNCHANGED <<phoneCallId, isPlaying, audioSrc, speakerStreams>>
    /\ UNCHANGED <<speakerIntervals, placed, closedStreams, streamed,
                   hangUpLog, toastSuccess>>

\* streamSpeaker yields a payload and the loop body runs (lines 263-266);
\* n is the payload's arrival number
SpeakerPayload(c, speaker) ==
    /\ c \in speakerStreams \ closedStreams
    /\ PhoneInputsSoFar < MaxInputs
    /\ streamed' = streamed + 1
    /\ speakerIntervals' =
          Append(speakerIntervals, [call |-> c, n |-> streamed + 1, speaker |-> speaker])
    /\ UNCHANGED <<phoneCallId, isPlaying, audioSrc, placed, outbound,
                   closedStreams, hangUpLog, toastSuccess, toastErrors,
                   failedCalls, speakerStreams>>

\* the source of stream c ends or throws: the promise the loop waits on settles
SpeakerStreamCloses(c) ==
    /\ c \in speakerStreams \ closedStreams
    /\ closedStreams' = closedStreams \cup {c}
    /\ UNCHANGED <<phoneCallId, isPlaying, speakerIntervals, audioSrc, placed,
                   outbound, streamed, hangUpLog, toastSuccess, toastErrors,
                   failedCalls, speakerStreams>>

\* the consumer resumes after its loop, or in its catch block (lines 267-272)
ConsumerResets(c) ==
    /\ c \in closedStreams
    /\ closedStreams' = closedStreams \ {c}
    /\ speakerStreams' = speakerStreams \ {c}
    /\ isPlaying' = FALSE
    /\ phoneCallId' = Null
    /\ speakerIntervals' = <<>>
    /\ UNCHANGED <<audioSrc, placed, outbound, streamed, hangUpLog,
                   toastSuccess, toastErrors, failedCalls>>

\* the Hang Up button (lines 300-310) and handleCallHangUp up to its await
ClickHangUp ==
    /\ isPlaying
    /\ phoneCallId # Null
    /\ PhoneInputsSoFar < MaxInputs
    /\ hangUpLog' = Append(hangUpLog, "pending")
    /\ UNCHANGED <<phoneCallId, isPlaying, speakerIntervals, audioSrc, placed,
                   outbound, closedStreams, streamed, toastSuccess,
                   toastErrors, failedCalls, speakerStreams>>

\* hangUp returns true, or false after a caught failure (lines 278-283)
HangUpReturnResets(i, ok) ==
    /\ i \in 1..Len(hangUpLog)
    /\ hangUpLog[i] = "pending"
    /\ hangUpLog' = [hangUpLog EXCEPT ![i] = IF ok THEN "ok" ELSE "failed"]
    /\ IF ok
       THEN toastSuccess' = toastSuccess + 1 /\ UNCHANGED <<toastErrors, failedCalls>>
       ELSE /\ toastErrors' = toastErrors + 1
            /\ failedCalls' = failedCalls + 1
            /\ UNCHANGED toastSuccess
    /\ isPlaying' = FALSE
    /\ phoneCallId' = Null
    /\ UNCHANGED <<speakerIntervals, audioSrc, placed,
                   outbound, closedStreams, streamed, speakerStreams>>

HangUpReturn(i, ok) ==
    /\ i \in 1..Len(hangUpLog)
    /\ hangUpLog[i] = "pending"
    /\ hangUpLog' = [hangUpLog EXCEPT ![i] = IF ok THEN "ok" ELSE "failed"]
    /\ IF ok
       THEN toastSuccess' = toastSuccess + 1 /\ UNCHANGED <<toastErrors, failedCalls>>
       ELSE /\ toastErrors' = toastErrors + 1
            /\ failedCalls' = failedCalls + 1
            /\ UNCHANGED toastSuccess
    /\ UNCHANGED <<phoneCallId, isPlaying, speakerIntervals, audioSrc, placed,
                   outbound, closedStreams, streamed, speakerStreams>>

\* what the steps of the phone mode leave alone
PhoneFrame ==
    UNCHANGED <<connVars, callVars, liveVars, fieldVars, agentVars, displayVars>>

NextPhone ==
    \/ PlaceCall /\ PhoneFrame
    \/ \E c \in Sessions, ok \in BOOLEAN : OutboundReturn(c, ok) /\ PhoneFrame
    \/ \E c \in Sessions, sp \in {"User", "Assistant"} :
          SpeakerPayload(c, sp) /\ PhoneFrame
    \/ \E c \in Sessions : SpeakerStreamCloses(c) /\ PhoneFrame
    \/ \E c \in Sessions : ConsumerResets(c) /\ PhoneFrame
    \/ ClickHangUp /\ PhoneFrame
    \/ \E i \in 1..MaxInputs, ok \in BOOLEAN : HangUpReturn(i, ok) /\ PhoneFrame

SpecPhone == Init /\ [][NextPhone]_vars

\* a consumer whose stream has settled is resumed by the event loop
FairSpecPhone ==
    /\ SpecPhone
    /\ WF_vars(\E c \in Sessions : ConsumerResets(c) /\ PhoneFrame)

PageIdle ==
    /\ phoneCallId = Null
    /\ ~isPlaying
    /\ speakerIntervals = <<>>

\* a step in which outboundCall of invocation c returns a call id
OutboundSucceeds(c) == outbound[c] = "pending" /\ outbound'[c] = "ok"

\* a step in which hangUp request i returns
HangUpSettles(i) ==
    /\ i \in 1..Len(hangUpLog)
    /\ hangUpLog[i] = "pending"
    /\ hangUpLog'[i] # "pending"

C14_HangUpOnlyNotifies ==
    /\ [][\A i \in 1..Len(hangUpLog) : HangUpSettles(i) =>
            /\ hangUpLog'[i] = "ok" =>
                  toastSuccess' = toastSuccess + 1 /\ toastErrors' = toastErrors
            /\ hangUpLog'[i] = "failed" =>
                  toastErrors' = toastErrors + 1 /\ toastSuccess' = toastSuccess
            /\ UNCHANGED <<phoneCallId, isPlaying, speakerIntervals,
                           speakerStreams, closedStreams>>]_vars
    /\ [][(isPlaying /\ ~isPlaying') \/ (phoneCallId # Null /\ phoneCallId' = Null)
            => \E c \in closedStreams : c \notin speakerStreams']_vars

\* a hangUp request has succeeded, another has failed, and the call is
\* still in progress with its consumer running
C14_Witness ==
    /\ \E i, j \in 1..Len(hangUpLog) : hangUpLog[i] = "ok" /\ hangUpLog[j] = "failed"
    /\ isPlaying
    /\ phoneCallId # Null
    /\ phoneCallId \in speakerStreams
    /\ speakerIntervals # <<>>

\* ======================= backend-call failures =======================
\* createSession, storeSession, outboundCall and hangUp (src/unnamed/part_001)
\* catch the failure of their request and return null or false; failedCalls
\* counts these returns, toastErrors the error notices raised by the callers.
\* SpecCounted counts for AudioConnection; the phone mode and the agent
\* views count in their own steps.

\* C15: every backend call that failed has produced exactly one error
\* notice: there are as many error notices as failed calls.
C15_OneNoticePerFailure ==
    toastErrors = failedCalls

\* ======================= LiveCallDisplay =======================
\* src/frontend/src/components/CallDisplay.tsx, lines 160-261.
\* Run s of runMetadataStream is the one started by the s-th selection of a
\* call; the n-th payload it consumes carries the data Data(s, n).

LiveCalls == 1..MaxLiveCalls

\* payload.data of the n-th payload of run s: a list of speaker segments
Data(s, n) == <<[stream |-> s, n |-> n]>>

\* the parent sets phoneCallId to c while the display is closed; the effect
\* of lines 209-217 opens the display and starts runMetadataStream
SelectLiveCall(c) ==
    /\ livePhoneCallId = Null
    /\ liveInputs < MaxInputs
    /\ liveInputs' = liveInputs + 1
    /\ livePhoneCallId' = c
    /\ liveOpen' = TRUE
    /\ metaStreams' = Append(metaStreams,
                            [call |-> c, status |-> "running", n |-> 0, ended |-> FALSE])
    /\ UNCHANGED <<speakerSegments, callEnded>>

\* onOpenChange(false) (lines 200-207)
CloseLive ==
    /\ liveOpen
    /\ liveInputs < MaxInputs
    /\ liveInputs' = liveInputs + 1
    /\ livePhoneCallId' = Null
    /\ speakerSegments' = <<>>
    /\ liveOpen' = FALSE
    /\ UNCHANGED <<callEnded, metaStreams>>

\* the loop body of runMetadataStream for one payload (lines 186-194)
MetaPayloadNoBreak(s, isEnd) ==
    /\ s \in 1..Len(metaStreams)
    /\ metaStreams[s].status = "running"
    /\ liveInputs < MaxInputs
    /\ liveInputs' = liveInputs + 1
    /\ IF isEnd
       THEN /\ callEnded' = TRUE
            /\ metaStreams' = [metaStreams EXCEPT ![s].n = @ + 1, ![s].ended = TRUE]
            /\ UNCHANGED speakerSegments
       ELSE /\ speakerSegments' = Data(s, metaStreams[s].n + 1)
            /\ metaStreams' = [metaStreams EXCEPT ![s].n = @ + 1]
            /\ UNCHANGED callEnded
    /\ UNCHANGED <<livePhoneCallId, liveOpen>>

MetaPayload(s, isEnd) ==
    /\ s \in 1..Len(metaStreams)
    /\ metaStreams[s].status = "running"
    /\ liveInputs < MaxInputs
    /\ liveInputs' = liveInputs + 1
    /\ IF isEnd
       THEN /\ callEnded' = TRUE
            /\ metaStreams' = [metaStreams EXCEPT ![s].n = @ + 1, ![s].ended = TRUE,
                                                  ![s].status = "stopped"]
            /\ UNCHANGED speakerSegments
       ELSE /\ speakerSegments' = Data(s, metaStreams[s].n + 1)
            /\ metaStreams' = [metaStreams EXCEPT ![s].n = @ + 1]
            /\ UNCHANGED callEnded
    /\ UNCHANGED <<livePhoneCallId, liveOpen>>

\* the stream of run s throws (the catch of lines 195-197 logs the error),
\* or ends without a call_end payload
MetaStreamCloses(s, thrown) ==
    /\ s \in 1..Len(metaStreams)
    /\ metaStreams[s].status = "running"
    /\ metaStreams' = [metaStreams EXCEPT ![s].status = IF thrown THEN "failed" ELSE "over"]
    /\ UNCHANGED <<livePhoneCallId, liveOpen, speakerSegments, callEnded, liveInputs>>

\* what the steps of LiveCallDisplay leave alone
LiveFrame ==
    UNCHANGED <<connVars, toastErrors, failedCalls, speakerStreams, callVars,
                pageVars, fieldVars, agentVars, displayVars>>

NextLive ==
    \/ \E c \in LiveCalls : SelectLiveCall(c) /\ LiveFrame
    \/ CloseLive /\ LiveFrame
    \/ \E s \in 1..MaxInputs, isEnd \in BOOLEAN : MetaPayload(s, isEnd) /\ LiveFrame
    \/ \E s \in 1..MaxInputs, thrown \in BOOLEAN : MetaStreamCloses(s, thrown) /\ LiveFrame

SpecLive == Init /\ [][NextLive]_vars

\* the runs of runMetadataStream that are still consuming
RunningMeta == {s \in 1..Len(metaStreams) : metaStreams[s].status = "running"}

\* C16: once the metadata stream of the displayed call has thrown and no
\* consumer is running any more, the call is shown as ended.
C16_FailedStreamShowsEnded ==
    (/\ \E s \in 1..Len(metaStreams) :
           metaStreams[s].status = "failed" /\ metaStreams[s].call = livePhoneCallId
     /\ RunningMeta = {})
    => callEnded

\* C20: a payload that is not the call-end marker replaces the displayed
\* segments with its data; the call-end marker sets callEnded, leaves the
\* segments alone and ends the run: a run that has processed call_end
\* consumes no further payload, so it never changes the segments again.
C20_CallEndStopsConsumption ==
    [][\A s \in 1..Len(metaStreams) :
         /\ (metaStreams'[s].n = metaStreams[s].n + 1 /\ ~metaStreams'[s].ended)
               => speakerSegments' = Data(s, metaStreams'[s].n)
         /\ (~metaStreams[s].ended /\ metaStreams'[s].ended)
               => callEnded' /\ speakerSegments' = speakerSegments
         /\ metaStreams[s].ended
               => /\ metaStreams'[s].n = metaStreams[s].n
                  /\ metaStreams'[s].ended
                  /\ (speakerSegments' # speakerSegments =>
                         \/ speakerSegments' = <<>>
                         \/ \E t \in 1..Len(metaStreams) :
                               t # s /\ speakerSegments' = Data(t, metaStreams'[t].n))]_vars

\* a run has delivered two payloads and then the call-end marker, and the
\* display still shows its last payload
C20_Witness ==
    \E s \in 1..Len(metaStreams) :
        /\ metaStreams[s].ended
        /\ metaStreams[s].n = 3
        /\ speakerSegments = Data(s, 2)
        /\ callEnded
        /\ liveInputs = MaxInputs

\* the run of runMetadataStream started for the call that is displayed now
\* (0 when the display is closed)
CurrentRun == IF livePhoneCallId = Null THEN 0 ELSE Len(metaStreams)

\* a step in which run s consumes a payload
Consumes(s) == metaStreams'[s].n = metaStreams[s].n + 1

\* C24: the displayed segments come from the stream of the selected call: a
\* payload consumed by a run that was started for an earlier selection
\* (the display closed since, or reopened for another call) changes neither
\* the displayed segments nor callEnded.
C24_OnlyCurrentStreamDisplays ==
    [][\A s \in 1..Len(metaStreams) :
          (Consumes(s) /\ s # CurrentRun) => UNCHANGED <<speakerSegments, callEnded>>]_vars

\* a step in which the display is given the id of a call it has not shown
GivenNewCall ==
    /\ livePhoneCallId = Null
    /\ livePhoneCallId' # Null
    /\ \A s \in 1..Len(metaStreams) : metaStreams[s].call # livePhoneCallId'

\* C25: when the display is given a new phone call id, callEnded is false
\* (no payload of that call's stream has been consumed yet), also when an
\* earlier call shown by the same component had ended.
C25_NewCallNotEnded ==
    [][GivenNewCall => ~callEnded']_vars

\* ======================= extractFields =======================
\* src/unnamed/part_000, lines 471-487.
\* A Record<string, string> is the sequence of its entries [key, value] in
\* the order in which JavaScript enumerates them: the keys that are array
\* indices first, in ascending numeric order, then the other keys in the
\* order in which they were created.

\* the characters of the instruction texts in the runs
TextAlphabet == {"{", "}", "n", "1"}

RECURSIVE TextsOfLen(_)
TextsOfLen(n) ==
    IF n = 0 THEN {<<>>}
    ELSE {Append(s, c) : s \in TextsOfLen(n - 1), c \in TextAlphabet}

Texts == UNION {TextsOfLen(n) : n \in 0..MaxTextLen}

FirstTexts == UNION {TextsOfLen(n) : n \in 0..MaxFirstLen}

\* the first position from i on at which s has the character c, 0 if none
RECURSIVE IndexOf(_, _, _)
IndexOf(s, c, i) ==
    IF i > Len(s) THEN 0
    ELSE IF s[i] = c THEN i
    ELSE IndexOf(s, c, i + 1)

\* value.match(/\{([^}]+)\}/g)?.map((field) => field.slice(1, -1)) || [] :
\* the search resumes at i.  A match starts at a "{", takes every character
\* up to the next "}" (at least one) and that "}"; the next search starts
\* after it.
RECURSIVE MatchFields(_, _)
MatchFields(s, i) ==
    IF i > Len(s) THEN <<>>
    ELSE LET j == IndexOf(s, "}", i + 1) IN
         IF s[i] = "{" /\ j > i + 1
         THEN <<SubSeq(s, i + 1, j - 1)>> \o MatchFields(s, j + 1)
         ELSE MatchFields(s, i + 1)

DigitSeq == <<"0", "1", "2", "3", "4", "5", "6", "7", "8", "9">>

DigitValue(c) == (CHOOSE i \in 1..10 : DigitSeq[i] = c) - 1

RECURSIVE NumValue(_)
NumValue(k) ==
    IF Len(k) = 0 THEN 0
    ELSE 10 * NumValue(SubSeq(k, 1, Len(k) - 1)) + DigitValue(k[Len(k)])

\* k is the canonical decimal form of an array index (the keys of the runs
\* are far below the limit of 2^32 - 2)
IsArrayIndex(k) ==
    /\ Len(k) > 0
    /\ \A i \in 1..Len(k) : k[i] \in Digits
    /\ (Len(k) = 1 \/ k[1] # "0")

\* field in obj
HasKey(obj, k) == \E i \in 1..Len(obj) : obj[i].key = k

\* obj[field]
GetKey(obj, k) == obj[CHOOSE i \in 1..Len(obj) : obj[i].key = k].value

\* obj[k] = v
SetKey(obj, k, v) ==
    IF HasKey(obj, k)
    THEN [i \in 1..Len(obj) |->
            IF obj[i].key = k THEN [key |-> k, value |-> v] ELSE obj[i]]
    ELSE LET before ==
               IF IsArrayIndex(k)
               THEN Cardinality({i \in 1..Len(obj) :
                        IsArrayIndex(obj[i].key) /\ NumValue(obj[i].key) < NumValue(k)})
               ELSE Len(obj)
         IN SubSeq(obj, 1, before) \o <<[key |-> k, value |-> v]>>
              \o SubSeq(obj, before + 1, Len(obj))

\* fields.forEach(...) from the i-th field on (lines 481-483)
RECURSIVE FillFields(_, _, _, _)
FillFields(fields, i, prev, newFields) ==
    IF i > Len(fields) THEN newFields
    ELSE FillFields(fields, i + 1, prev,
                    SetKey(newFields, fields[i],
                           IF HasKey(prev, fields[i]) THEN GetKey(prev, fields[i]) ELSE <<>>))

\* the updater that extractFields(value) passes to setSampleFields
extractFields(prev, value) == FillFields(MatchFields(value, 1), 1, prev, <<>>)

\* extractFields is called with the text t (by the effect of lines 433-437
\* when the selected version changes, or by handleSaveVersion)
ExtractFieldsCall(t) ==
    /\ extracts < 2
    /\ t \in (IF extracts = 0 THEN FirstTexts ELSE Texts)
    /\ sampleFields' = extractFields(sampleFields, t)
    /\ extracts' = extracts + 1
    /\ lastText' = Str(t)

\* the user enters a value for the sample field k
TypeSampleValue(k) ==
    /\ extracts = 1
    /\ k \in 1..Len(sampleFields)
    /\ sampleFields' = [sampleFields EXCEPT ![k].value = <<"v">>]
    /\ UNCHANGED <<extracts, lastText>>

\* what these steps leave alone
FieldFrame ==
    UNCHANGED <<connVars, toastErrors, failedCalls, speakerStreams, callVars,
                pageVars, liveVars, agentVars, displayVars>>

NextExtract ==
    \/ \E t \in Texts : ExtractFieldsCall(t) /\ FieldFrame
    \/ \E k \in 1..MaxTextLen : TypeSampleValue(k) /\ FieldFrame

SpecExtract == Init /\ [][NextExtract]_vars

\* the elements of a sequence, each at its first appearance
RECURSIVE FirstAppearances(_, _)
FirstAppearances(fields, i) ==
    IF i > Len(fields) THEN <<>>
    ELSE IF \E j \in 1..(i - 1) : fields[j] = fields[i]
         THEN FirstAppearances(fields, i + 1)
         ELSE <<fields[i]>> \o FirstAppearances(fields, i + 1)

Keys(obj) == [i \in 1..Len(obj) |-> obj[i].key]

\* C18: a call of extractFields(text) leaves a sample-field map whose keys
\* are the distinct placeholder names of text in the order of their first
\* appearance; a key that existed before keeps its value and a new key has
\* the empty string (keys that are not referenced are therefore dropped).
C18_FieldsFollowText ==
    [][extracts' = extracts + 1 =>
         /\ Keys(sampleFields') = FirstAppearances(MatchFields(lastText'.value, 1), 1)
         /\ \A i \in 1..Len(sampleFields') :
               sampleFields'[i].value =
                  IF HasKey(sampleFields, sampleFields'[i].key)
                  THEN GetKey(sampleFields, sampleFields'[i].key)
                  ELSE <<>>]_vars

\* ======================= AgentConfiguration =======================
\* src/unnamed/part_000, lines 363-630.
\* An Agent is a record [id, base, active, name, msg]: version id, base_id,
\* active flag, name and system_message.  The backend gives the record it
\* creates the id issued + 1; a new agent's base_id is that number too.

NameValues == {"A", "B"}

\* the instruction texts that are typed or returned in the runs
Templates == {<<"{", "n", "}">>, <<"{", "n", "}", "{", "1", "}">>}

NoAgent == [id |-> Null, base |-> Null, active |-> FALSE, name |-> "", msg |-> <<>>]

NoVersion == [pending |-> FALSE, id |-> Null, base |-> Null, active |-> FALSE,
              name |-> "", msg |-> <<>>]

NoSelection == [baseId |-> Null, versionId |-> Null]

\* the first agent of ags that satisfies the test, as find() returns it
FirstWithId(ags, id) ==
    IF id # Null /\ \E i \in 1..Len(ags) : ags[i].id = id
    THEN ags[CHOOSE i \in 1..Len(ags) :
               ags[i].id = id /\ \A j \in 1..(i - 1) : ags[j].id # id]
    ELSE NoAgent

FirstWithBase(ags, b) ==
    IF b # Null /\ \E i \in 1..Len(ags) : ags[i].base = b
    THEN ags[CHOOSE i \in 1..Len(ags) :
               ags[i].base = b /\ \A j \in 1..(i - 1) : ags[j].base # b]
    ELSE NoAgent

\* activeAgent (lines 429-431); NoAgent stands for undefined
activeAgent == FirstWithId(agents, agentId.versionId)

\* the effect of lines 433-437, run after a render in which the id of
\* activeAgent differs from the one of the previous render
AfterRender(fields, ags, sel) ==
    LET now == FirstWithId(ags, sel.versionId) IN
    IF now.id # Null /\ now.id # activeAgent.id
    THEN extractFields(fields, now.msg)
    ELSE fields

\* the pending edit after an onChange that sets one field (lines 578-591
\* and 600-613): the previous edit if there is one, else a copy of activeAgent
EditOf(prev) ==
    IF prev.pending THEN prev
    ELSE [pending |-> TRUE, id |-> activeAgent.id, base |-> activeAgent.base,
          active |-> activeAgent.active, name |-> activeAgent.name,
          msg |-> activeAgent.msg]

\* CreateNewAgentModal: the Create button, handleCreateNewAgent up to its await
ClickCreate(name) ==
    /\ agentInputs < MaxInputs
    /\ agentInputs' = agentInputs + 1
    /\ createLog' = Append(createLog, [name |-> name, status |-> "pending"])
    /\ UNCHANGED <<agents, agentId, newVersion, saveLoading, saveLog, issued,
                   sampleFields, toastErrors, toastSuccess, failedCalls>>

\* createAgent returns the new agent with the instructions m, or null
\* (lines 372-383)
CreateReturn(i, ok, m) ==
    /\ i \in 1..Len(createLog)
    /\ createLog[i].status = "pending"
    /\ createLog' = [createLog EXCEPT ![i].status = IF ok THEN "ok" ELSE "failed"]
    /\ IF ok
       THEN LET response == [id |-> issued + 1, base |-> issued + 1, active |-> TRUE,
                             name |-> createLog[i].name, msg |-> m]
                sel == [baseId |-> response.base, versionId |-> response.id]
            IN /\ agents' = <<response>> \o agents
               /\ agentId' = sel
               /\ issued' = issued + 1
               /\ sampleFields' = AfterRender(sampleFields, agents', sel)
               /\ toastSuccess' = toastSuccess + 1
               /\ UNCHANGED <<toastErrors, failedCalls>>
       ELSE /\ toastErrors' = toastErrors + 1
            /\ failedCalls' = failedCalls + 1
            /\ UNCHANGED <<agents, agentId, issued, sampleFields, toastSuccess>>
    /\ UNCHANGED <<newVersion, saveLoading, saveLog, agentInputs>>

\* the Agent select: onValueChange(b) (lines 495-503); its items are the
\* base ids of the active agents, and it is disabled without a selection
SelectAgent(b) ==
    /\ agentInputs < MaxInputs
    /\ agentId # NoSelection
    /\ b # agentId.baseId
    /\ \E i \in 1..Len(agents) : agents[i].active /\ agents[i].base = b
    /\ agentInputs' = agentInputs + 1
    /\ agentId' = [baseId |-> b, versionId |-> FirstWithBase(agents, b).id]
    /\ sampleFields' = AfterRender(sampleFields, agents, agentId')
    /\ UNCHANGED <<agents, newVersion, saveLoading, saveLog, createLog, issued,
                   toastErrors, toastSuccess, failedCalls>>

\* the Version select: onValueChange(v) (lines 532-543); its items are the
\* versions of the selected base, and it is disabled without activeAgent
SelectVersion(v) ==
    /\ agentInputs < MaxInputs
    /\ activeAgent # NoAgent
    /\ v # agentId.versionId
    /\ \E i \in 1..Len(agents) : agents[i].id = v /\ agents[i].base = agentId.baseId
    /\ agentInputs' = agentInputs + 1
    /\ agentId' = [baseId |-> FirstWithBase(agents, agentId.baseId).base, versionId |-> v]
    /\ newVersion' = NoVersion
    /\ sampleFields' = AfterRender(sampleFields, agents, agentId')
    /\ UNCHANGED <<agents, saveLoading, saveLog, createLog, issued,
                   toastErrors, toastSuccess, failedCalls>>

\* the Name input: onChange (lines 578-591); disabled without activeAgent
EditName(v) ==
    /\ agentInputs < MaxInputs
    /\ activeAgent # NoAgent
    /\ agentInputs' = agentInputs + 1
    /\ newVersion' = [EditOf(newVersion) EXCEPT !.name = v]
    /\ UNCHANGED <<agents, agentId, saveLoading, saveLog, createLog, issued,
                   sampleFields, toastErrors, toastSuccess, failedCalls>>

\* the Instructions textarea: onChange (lines 600-613)
EditInstructions(v) ==
    /\ agentInputs < MaxInputs
    /\ agentInputs' = agentInputs + 1
    /\ newVersion' = [EditOf(newVersion) EXCEPT !.msg = v]
    /\ UNCHANGED <<agents, agentId, saveLoading, saveLog, createLog, issued,
                   sampleFields, toastErrors, toastSuccess, failedCalls>>

\* the Save Version button (lines 622-627), handleSaveVersion up to its
\* await (lines 439-448)
ClickSave ==
    /\ agentInputs < MaxInputs
    /\ newVersion.pending
    /\ agentInputs' = agentInputs + 1
    /\ saveLoading' = TRUE
    /\ saveLog' = Append(saveLog, [name |-> newVersion.name, msg |-> newVersion.msg,
                                   base |-> newVersion.base, active |-> newVersion.active,
                                   status |-> "pending"])
    /\ UNCHANGED <<agents, agentId, newVersion, createLog, issued, sampleFields,
                   toastErrors, toastSuccess, failedCalls>>

\* the record createNewAgentVersion returns for request r: a new version of
\* the base of r with the posted name and instructions; act is its active flag
createNewAgentVersion(r, act) ==
    [id |-> issued + 1, base |-> r.base, active |-> act, name |-> r.name, msg |-> r.msg]

\* createNewAgentVersion returns and handleSaveVersion resumes (lines 449-467)
SaveReturnKeepsEdit(i, ok, act) ==
    /\ i \in 1..Len(saveLog)
    /\ saveLog[i].status = "pending"
    /\ ok => saveLog[i].base # Null
    /\ saveLog' = [saveLog EXCEPT ![i].status = IF ok THEN "ok" ELSE "failed"]
    /\ saveLoading' = FALSE
    /\ IF ok
       THEN LET response == createNewAgentVersion(saveLog[i], act)
                sel == [baseId |-> response.base, versionId |-> response.id]
            IN /\ agents' = <<response>> \o
                               [j \in 1..Len(agents) |-> [agents[j] EXCEPT !.active = FALSE]]
               /\ agentId' = sel
               /\ issued' = issued + 1
               /\ sampleFields' =
                     AfterRender(extractFields(sampleFields, response.msg), agents', sel)
               /\ UNCHANGED newVersion
               /\ toastSuccess' = toastSuccess + 1
               /\ UNCHANGED <<toastErrors, failedCalls>>
       ELSE /\ toastErrors' = toastErrors + 1
            /\ failedCalls' = failedCalls + 1
            /\ UNCHANGED <<agents, agentId, issued, sampleFields, newVersion,
                           toastSuccess>>
    /\ UNCHANGED <<createLog, agentInputs>>

SaveReturn(i, ok, act) ==
    /\ i \in 1..Len(saveLog)
    /\ saveLog[i].status = "pending"
    /\ ok => saveLog[i].base # Null
    /\ saveLog' = [saveLog EXCEPT ![i].status = IF ok THEN "ok" ELSE "failed"]
    /\ saveLoading' = FALSE
    /\ IF ok
       THEN LET response == createNewAgentVersion(saveLog[i], act)
                sel == [baseId |-> response.base, versionId |-> response.id]
            IN /\ agents' = <<response>> \o
                               [j \in 1..Len(agents) |-> [agents[j] EXCEPT !.active = FALSE]]
               /\ agentId' = sel
               /\ issued' = issued + 1
               /\ sampleFields' =
                     AfterRender(extractFields(sampleFields, response.msg), agents', sel)
               /\ newVersion' = NoVersion
               /\ toastSuccess' = toastSuccess + 1
               /\ UNCHANGED <<toastErrors, failedCalls>>
       ELSE /\ toastErrors' = toastErrors + 1
            /\ failedCalls' = failedCalls + 1
            /\ UNCHANGED <<agents, agentId, issued, sampleFields, newVersion,
                           toastSuccess>>
    /\ UNCHANGED <<createLog, agentInputs>>

\* what the steps of the agent views leave alone
AgentFrame ==
    UNCHANGED <<connVars, speakerStreams, callVars, liveVars, phoneCallId,
                isPlaying, speakerIntervals, audioSrc, placed, outbound,
                closedStreams, streamed, hangUpLog, extracts, lastText,
                displayVars>>

NextAgent ==
    \/ \E name \in NameValues : ClickCreate(name) /\ AgentFrame
    \/ \E i \in 1..MaxInputs, ok \in BOOLEAN, m \in Templates :
          CreateReturn(i, ok, m) /\ AgentFrame
    \/ \E b \in 1..MaxInputs : SelectAgent(b) /\ AgentFrame
    \/ \E v \in 1..MaxInputs : SelectVersion(v) /\ AgentFrame
    \/ \E v \in NameValues : EditName(v) /\ AgentFrame
    \/ \E v \in Templates : EditInstructions(v) /\ AgentFrame
    \/ ClickSave /\ AgentFrame
    \/ \E i \in 1..MaxInputs, ok \in BOOLEAN, act \in BOOLEAN :
          SaveReturn(i, ok, act) /\ AgentFrame

SpecAgent == Init /\ [][NextAgent]_vars

BasesOf(ags) == {ags[i].base : i \in 1..Len(ags)}

OneActivePerBase(ags) ==
    \A b \in BasesOf(ags) :
        Cardinality({i \in 1..Len(ags) : ags[i].base = b /\ ags[i].active}) = 1

\* a step in which save request i returns a record
SaveSucceeds(i) ==
    /\ i \in 1..Len(saveLog)
    /\ saveLog[i].status = "pending"
    /\ saveLog'[i].status = "ok"

\* a step in which save request i returns null
SaveFails(i) ==
    /\ i \in 1..Len(saveLog)
    /\ saveLog[i].status = "pending"
    /\ saveLog'[i].status = "failed"

\* a step in which the name or the instructions are edited
EditStep == newVersion'.pending /\ newVersion' # newVersion

\* C17: a successful handleSaveVersion that starts from a collection in
\* which every base has exactly one active version ends in such a
\* collection, also when the collection holds several bases.  The formula
\* takes the case of a returned record that is marked active, so that it
\* does not depend on the flag the backend chooses.
C17_OneActivePerBaseAfterSave ==
    [][\A i \in 1..Len(saveLog) :
         (SaveSucceeds(i) /\ OneActivePerBase(agents) /\ agents'[1].active)
            => OneActivePerBase(agents')]_vars

\* C19: an edit of the name or the instructions changes the pending edit
\* only and sends no request; a save that succeeds puts the returned version
\* in front of the collection, selects it and clears the pending edit; a
\* save that fails leaves the collection, the selection and the pending edit
\* as they were and raises one error notice.
C19_EditLocalSaveCommits ==
    /\ [][EditStep =>
            UNCHANGED <<agents, agentId, saveLog, createLog, issued, sampleFields,
                        saveLoading, toastErrors, toastSuccess>>]_vars
    /\ [][\A i \in 1..Len(saveLog) : SaveSucceeds(i) =>
            /\ Len(agents') = Len(agents) + 1
            /\ agents'[1] = createNewAgentVersion(saveLog[i], agents'[1].active)
            /\ \A j \in 1..Len(agents) : agents'[j + 1].id = agents[j].id
            /\ agentId' = [baseId |-> agents'[1].base, versionId |-> agents'[1].id]
            /\ newVersion' = NoVersion]_vars
    /\ [][\A i \in 1..Len(saveLog) : SaveFails(i) =>
            /\ UNCHANGED <<agents, agentId, newVersion>>
            /\ toastErrors' = toastErrors + 1
            /\ toastSuccess' = toastSuccess]_vars

\* one save has failed with the edit kept, and a later save of an edit of
\* both fields has succeeded
C19_Witness ==
    /\ \E i, j \in 1..Len(saveLog) :
          /\ saveLog[i].status = "failed"
          /\ saveLog[j].status = "ok"
    /\ Len(agents) = 2
    /\ agentId.versionId = agents[1].id
    /\ ~newVersion.pending

\* a step in which handleSaveVersion posts a record
SavePosts == Len(saveLog') = Len(saveLog) + 1

\* a pending edit of an agent of the collection
EditOfAgent == newVersion.pending /\ newVersion.base # Null

\* C26: a pending edit belongs to the current selection: a step that changes
\* the selected base agent or version discards the pending edit of an agent,
\* and handleSaveVersion posts such an edit under the base id that is
\* selected when it is called.
C26_EditBelongsToSelection ==
    [][EditOfAgent =>
          /\ agentId' # agentId => ~newVersion'.pending
          /\ SavePosts => saveLog'[Len(saveLog')].base = agentId.baseId]_vars

\* ======================= CallDisplay =======================
\* src/frontend/src/components/CallDisplay.tsx, lines 72-158
\*
\* The component stays mounted while the parent changes props.call.  The
\* sheet is modal: a recorded call is selected in the parent's list while
\* the sheet is closed.  The transcript of call c is written c.

RecordedCalls == 1..MaxRecordedCalls

\* the parent sets props.call; the effect on props.call?.id runs (lines 88-92)
SelectCall(c) ==
    /\ call = Null
    /\ displayInputs < MaxInputs
    /\ displayInputs' = displayInputs + 1
    /\ call' = c
    /\ callOpen' = TRUE
    /\ transcriptLoading' = TRUE
    /\ transcriptFetches' = Append(transcriptFetches, [call |-> c, status |-> "pending"])
    /\ UNCHANGED audioTranscript

\* onOpenChange(false) (lines 102-107); the effect then returns at line 89
CloseCall ==
    /\ callOpen
    /\ displayInputs < MaxInputs
    /\ displayInputs' = displayInputs + 1
    /\ call' = Null
    /\ callOpen' = FALSE
    /\ UNCHANGED <<transcriptLoading, audioTranscript, transcriptFetches>>

\* the .then callback of getAudioTranscript (lines 92-99)
TranscriptReturn(f, ok) ==
    /\ f \in 1..Len(transcriptFetches)
    /\ transcriptFetches[f].status = "pending"
    /\ IF ok
       THEN /\ audioTranscript' = transcriptFetches[f].call
            /\ UNCHANGED <<toastErrors, failedCalls>>
       ELSE /\ toastErrors' = toastErrors + 1
            /\ failedCalls' = failedCalls + 1
            /\ UNCHANGED audioTranscript
    /\ transcriptLoading' = FALSE
    /\ transcriptFetches' = [transcriptFetches EXCEPT
                                ![f].status = IF ok THEN "ok" ELSE "failed"]
    /\ UNCHANGED <<call, callOpen, displayInputs>>

\* what the steps of CallDisplay leave alone
DisplayFrame ==
    UNCHANGED <<connVars, speakerStreams, callVars, pageVars, liveVars,
                fieldVars, agentVars>>

NextDisplay ==
    \/ \E c \in RecordedCalls :
          SelectCall(c) /\ DisplayFrame /\ UNCHANGED <<toastErrors, failedCalls>>
    \/ CloseCall /\ DisplayFrame /\ UNCHANGED <<toastErrors, failedCalls>>
    \/ \E f \in 1..MaxInputs, ok \in BOOLEAN : TranscriptReturn(f, ok) /\ DisplayFrame

SpecDisplay == Init /\ [][NextDisplay]_vars

\* the getAudioTranscript requests that have not settled
PendingFetches ==
    {f \in 1..Len(transcriptFetches) : transcriptFetches[f].status = "pending"}

\* C23: once every transcript fetch has settled and loading is false, the
\* transcript held for display while a call is selected is that call's (or
\* the empty one), never another call's.
C23_TranscriptOfSelectedCall ==
    (PendingFetches = {} /\ ~transcriptLoading /\ call # Null)
       => audioTranscript \in {Null, call}
====
